---- MODULE Spec2Model ----
(***************************************************************************)
(* A model of vstsdiff.py: one run of the script, from the first GET       *)
(* request to the deletion of the temporary files.  Every action is a      *)
(* straight-line piece of environment_files, _select_env, _get_diff_exe    *)
(* or the __main__ block.  Python's None is the empty sequence and a       *)
(* present value x is <<x>>.                                               *)
(***************************************************************************)
EXTENDS Integers, Sequences, FiniteSets, TLC

VARIABLES
    pc,              \* position of the run in the script
    release_definition, \* options.rd
    bc,              \* options.bc: None, or the string given to -c
    deltmp,          \* options.deltmp
    nrequests,       \* number of requests.get calls issued so far
    status_code,     \* response.status_code of the last response (None / <<n>>)
    allreleasedefs,  \* body of the list response: sequence of [name, id]
    rdid,            \* id found by the linear search (None / <<id>>)
    releasedef,      \* environments of the fetched definition (None / <<seq>>)
    env1, env2,      \* the selected indices (None / <<n>>)
    envstr,          \* _select_env: the line just read (None / <<string>>)
    prompts,         \* number of input() calls so far (saturating)
    tempfiles,       \* temp files on disk: set of [path, obj]
    envfile1, envfile2, \* names returned by _write_env_file (None / <<path>>)
    environ,         \* os.environ as seen by _get_diff_exe (None / <<set>>)
    isfile,          \* candidate paths found on disk by it (None / <<set>>)
    bcexe,           \* resolved executable (None / <<path>>)
    launched,        \* command lines handed to subprocess.call
    diffstatus,      \* return value of subprocess.call (None / <<rc>>)
    exitcode,        \* exit status of the process (None / <<code>>)
    raised           \* name of the uncaught exception that ended the run, or ""

vars == <<pc, release_definition, bc, deltmp, nrequests, status_code,
          allreleasedefs, rdid,
          releasedef, env1, env2, envstr, prompts, tempfiles, envfile1,
          envfile2, environ, isfile, bcexe, launched, diffstatus, exitcode,
          raised>>

None == <<>>
Some(x) == <<x>>

----------------------------------------------------------------------------
(* Bounds of the model *)

MaxDefs == 1        \* summaries in a list response
MaxEnvs == 3        \* environments in a release definition
MaxInputLen == 2    \* characters in a line typed at the prompt
MaxPrompts == 3     \* the prompt counter saturates here

----------------------------------------------------------------------------
(* The inputs of a run *)

Targets == {"rdA"}
Names == {"rdA", "rdB"}
Ids == {0, 7}
StatusCodes == {200, 401, 404, 503}
DiffReturnCodes == {0, 1, 13}
ExplicitPaths == {"", "C:/tools/diff.exe"}
EnvNames == <<"Dev", "Test", "Staging", "Prod", "DR", "Spare">>
Digits == {"0", "1", "2", "3", "4"}
Alphabet == Digits \cup {"-", " ", "a"}

RECURSIVE SeqsUpTo(_, _)
SeqsUpTo(S, n) ==
    IF n = 0 THEN {<<>>}
    ELSE LET shorter == SeqsUpTo(S, n - 1)
         IN  shorter \cup {Append(s, x) : s \in shorter, x \in S}

Summaries == [name : Names, id : Ids]
ListBodies == SeqsUpTo(Summaries, MaxDefs)
InputLines == SeqsUpTo(Alphabet, MaxInputLen)

----------------------------------------------------------------------------
(* A variant of ok that takes only server errors for failures *)
okServerErrorsOnly(code) == ~(500 <= code /\ code < 600)

(* requests: Response.ok is False exactly for 4xx and 5xx *)
ok(code) == ~(400 <= code /\ code < 600)

(* A variant of Truthy that ignores the option *)
TruthyNever(opt) == FALSE

(* Truth value of options.bc in `if options.bc:' *)
Truthy(opt) == opt # None /\ opt[1] # ""

(* A variant of IsNone that tests `if not rdid:' *)
IsNoneOrZero(id) == id = None \/ id[1] = 0

(* `if rdid is None:' *)
IsNone(id) == id = None

(* A variant of TooFew that tests `numenvs < 1' *)
TooFewBelowOne(n) == n < 1

(* `if numenvs < 2:' *)
TooFew(n) == n < 2

(* A variant of AutoSelect with the two indices swapped *)
AutoSelectSwapped == <<1, 0>>

(* `env1 = 0' and `env2 = 1' when there are exactly two environments *)
AutoSelect == <<0, 1>>

----------------------------------------------------------------------------
(* int(envstr): surrounding blanks are dropped, one sign is allowed, the   *)
(* rest must be a non-empty run of decimal digits; anything else raises    *)
(* ValueError, which is None here.                                         *)

DigitVal(c) == CASE c = "0" -> 0 [] c = "1" -> 1 [] c = "2" -> 2
                 [] c = "3" -> 3 [] c = "4" -> 4

RECURSIVE LStrip(_)
LStrip(s) == IF s # <<>> /\ Head(s) = " " THEN LStrip(Tail(s)) ELSE s

RECURSIVE RStrip(_)
RStrip(s) ==
    IF s # <<>> /\ s[Len(s)] = " " THEN RStrip(SubSeq(s, 1, Len(s) - 1)) ELSE s

Strip(s) == RStrip(LStrip(s))

IsDigits(s) == s # <<>> /\ \A i \in 1..Len(s) : s[i] \in Digits

RECURSIVE Decimal(_)
Decimal(s) ==
    IF s = <<>> THEN 0
    ELSE 10 * Decimal(SubSeq(s, 1, Len(s) - 1)) + DigitVal(s[Len(s)])

int(s) ==
    LET t == Strip(s)
    IN  IF t = <<>> THEN None
        ELSE IF Head(t) = "-"
             THEN IF IsDigits(Tail(t)) THEN Some(0 - Decimal(Tail(t))) ELSE None
             ELSE IF IsDigits(t) THEN Some(Decimal(t)) ELSE None

(* A variant of EnvVal whose except branch sets 0 *)
EnvValZeroOnError(s) == IF int(s) = None THEN 0 ELSE int(s)[1]

(* try: envval = int(envstr)  except: envval = -1 *)
EnvVal(s) == IF int(s) = None THEN -1 ELSE int(s)[1]

(* A variant of AskForEnv that applies the exclusion only `if exclude:' *)
AskForEnvIfExclude(envval, maxval, exclude) ==
    ~(envval >= 0 /\ envval <= maxval
      /\ (exclude = None \/ exclude[1] = 0 \/ envval # exclude[1]))

(* askforenv = not (envval >= 0 and envval <= maxval and envval != exclude); *)
(* an int never equals None, so without an exclusion the last test is true. *)
AskForEnv(envval, maxval, exclude) ==
    ~(envval >= 0 /\ envval <= maxval /\ (exclude = None \/ envval # exclude[1]))

(* for rd in allreleasedefs['value']: if rd['name'] == release_definition:  *)
(*     rdid = rd['id']          -- no break: the last match wins            *)
RECURSIVE SearchFrom(_, _, _)
SearchFrom(value, target, found) ==
    IF value = <<>> THEN found
    ELSE SearchFrom(Tail(value), target,
                    IF Head(value).name = target THEN Some(Head(value).id)
                    ELSE found)

FindId(value, target) == SearchFrom(value, target, None)

(* The environments of a definition with n of them, in list order *)
Environments(n) == SubSeq(EnvNames, 1, n)

(* difflist of _get_diff_exe: candidate k is built from this variable *)
DiffVars == <<"ProgramFiles", "ProgramFiles(x86)", "ProgramW6432">>
DiffList == <<"ProgramFiles/Beyond Compare 4/BCompare.exe",
              "ProgramFiles(x86)/Beyond Compare 4/BCompare.exe",
              "ProgramW6432/Beyond Compare 4/BCompare.exe">>

(* A variant of FirstFile that falls back on the first candidate *)
FirstFileOrDefault(k, existing) ==
    IF existing = {} THEN Some(DiffList[1])
    ELSE Some(DiffList[CHOOSE i \in existing : \A j \in existing : i <= j])

(* for diffpath in difflist: if os.path.isfile(diffpath): bcfile = diffpath; break *)
RECURSIVE FirstFile(_, _)
FirstFile(k, existing) ==
    IF k > Len(DiffList) THEN None
    ELSE IF k \in existing THEN Some(DiffList[k])
    ELSE FirstFile(k + 1, existing)

----------------------------------------------------------------------------
(* The state after the command line is parsed (lines 136-154) *)
Init ==
    /\ pc = "list_request"
    /\ release_definition \in Targets
    /\ bc \in {None} \cup {Some(p) : p \in ExplicitPaths}
    /\ deltmp \in BOOLEAN
    /\ nrequests = 0
    /\ status_code = None
    /\ allreleasedefs = None
    /\ rdid = None
    /\ releasedef = None
    /\ env1 = None
    /\ env2 = None
    /\ envstr = None
    /\ prompts = 0
    /\ tempfiles = {}
    /\ envfile1 = None
    /\ envfile2 = None
    /\ environ = None
    /\ isfile = None
    /\ bcexe = None
    /\ launched = <<>>
    /\ diffstatus = None
    /\ exitcode = None
    /\ raised = ""

(* sys.exit(code) *)
Exit(code) ==
    /\ pc' = "exited"
    /\ exitcode' = Some(code)
    /\ raised' = ""

(* An exception nobody catches: traceback, interpreter exit status 1 *)
Raise(exception) ==
    /\ pc' = "exited"
    /\ exitcode' = Some(1)
    /\ raised' = exception

Continue(next) ==
    /\ pc' = next
    /\ UNCHANGED <<exitcode, raised>>

(* lines 82-87: the list request *)
ListRequest ==
    /\ pc = "list_request"
    /\ nrequests' = nrequests + 1
    /\ \E code \in StatusCodes :
          /\ status_code' = Some(code)
          /\ IF ~ok(code)
             THEN /\ Exit(code)
                  /\ UNCHANGED allreleasedefs
             ELSE /\ \E value \in ListBodies : allreleasedefs' = Some(value)
                  /\ Continue("find_definition")
    /\ UNCHANGED <<release_definition, bc, deltmp, rdid, releasedef, env1, env2,
                   envstr, prompts, tempfiles, envfile1, envfile2, environ,
                   isfile, bcexe, launched, diffstatus>>

(* lines 88-95: the search by name *)
FindDefinition ==
    /\ pc = "find_definition"
    /\ rdid' = FindId(allreleasedefs[1], release_definition)
    /\ IF IsNone(rdid') THEN Exit(1) ELSE Continue("definition_request")
    /\ UNCHANGED <<release_definition, bc, deltmp, status_code, nrequests,
                   allreleasedefs,
                   releasedef, env1, env2, envstr, prompts, tempfiles, envfile1,
                   envfile2, environ, isfile, bcexe, launched, diffstatus>>

(* lines 97-102: the request for the definition *)
DefinitionRequest ==
    /\ pc = "definition_request"
    /\ nrequests' = nrequests + 1
    /\ \E code \in StatusCodes :
          /\ status_code' = Some(code)
          /\ IF ~ok(code)
             THEN /\ Exit(code)
                  /\ UNCHANGED releasedef
             ELSE /\ \E n \in 0..MaxEnvs : releasedef' = Some(Environments(n))
                  /\ Continue("count_environments")
    /\ UNCHANGED <<release_definition, bc, deltmp, allreleasedefs, rdid, env1,
                   env2, envstr, prompts, tempfiles, envfile1, envfile2, environ,
                   isfile, bcexe, launched, diffstatus>>

numenvs == IF releasedef = None THEN 0 ELSE Len(releasedef[1])

(* lines 103-115: the three cases of the environment count *)
CountEnvironments ==
    /\ pc = "count_environments"
    /\ IF TooFew(numenvs)
       THEN /\ Exit(2)
            /\ UNCHANGED <<env1, env2>>
       ELSE IF numenvs = 2
       THEN /\ env1' = Some(AutoSelect[1])
            /\ env2' = Some(AutoSelect[2])
            /\ Continue("write1")
       ELSE /\ Continue("input1")
            /\ UNCHANGED <<env1, env2>>
    /\ UNCHANGED <<release_definition, bc, deltmp, status_code, nrequests,
                   allreleasedefs,
                   rdid, releasedef, envstr, prompts, tempfiles, envfile1,
                   envfile2, environ, isfile, bcexe, launched, diffstatus>>

(* lines 19-23: one prompt of _select_env, for the left (1) or right (2) *)
(* environment                                                            *)
ReadInput ==
    /\ pc \in {"input1", "input2"}
    /\ \E line \in InputLines : envstr' = Some(line)
    /\ prompts' = IF prompts < MaxPrompts THEN prompts + 1 ELSE prompts
    /\ Continue(IF pc = "input1" THEN "check1" ELSE "check2")
    /\ UNCHANGED <<release_definition, bc, deltmp, status_code, nrequests,
                   allreleasedefs,
                   rdid, releasedef, env1, env2, tempfiles, envfile1, envfile2,
                   environ, isfile, bcexe, launched, diffstatus>>

(* lines 24-29 with the call sites 116 and 117: maxval is numenvs, and the *)
(* second call excludes env1.  envstr holds the line read and not yet     *)
(* validated.                                                             *)
CheckInput ==
    /\ pc \in {"check1", "check2"}
    /\ LET envval == EnvVal(envstr[1])
           exclude == IF pc = "check1" THEN None ELSE env1
       IN  IF AskForEnv(envval, numenvs, exclude)
           THEN /\ Continue(IF pc = "check1" THEN "input1" ELSE "input2")
                /\ UNCHANGED <<env1, env2>>
           ELSE IF pc = "check1"
           THEN /\ env1' = Some(envval)
                /\ UNCHANGED env2
                /\ Continue("input2")
           ELSE /\ env2' = Some(envval)
                /\ UNCHANGED env1
                /\ Continue("write1")
    /\ envstr' = None
    /\ UNCHANGED <<release_definition, bc, deltmp, status_code, nrequests,
                   allreleasedefs,
                   rdid, releasedef, prompts, tempfiles, envfile1, envfile2,
                   environ, isfile, bcexe, launched, diffstatus>>

(* _write_env_file, lines 31-36: a new file with a name of its own *)
NewPath == Cardinality(tempfiles) + 1

(* line 119: releasedef['environments'][env1] and its file *)
WriteFile1 ==
    /\ pc = "write1"
    /\ IF env1[1] >= numenvs
       THEN /\ Raise("IndexError")
            /\ UNCHANGED <<tempfiles, envfile1>>
       ELSE /\ tempfiles' = tempfiles \cup
                   {[path |-> NewPath, obj |-> releasedef[1][env1[1] + 1]]}
            /\ envfile1' = Some(NewPath)
            /\ Continue("write2")
    /\ UNCHANGED <<release_definition, bc, deltmp, status_code, nrequests,
                   allreleasedefs,
                   rdid, releasedef, env1, env2, envstr, prompts, envfile2,
                   environ, isfile, bcexe, launched, diffstatus>>

(* lines 120-122: releasedef['environments'][env2] and its file *)
WriteFile2 ==
    /\ pc = "write2"
    /\ IF env2[1] >= numenvs
       THEN /\ Raise("IndexError")
            /\ UNCHANGED <<tempfiles, envfile2>>
       ELSE /\ tempfiles' = tempfiles \cup
                   {[path |-> NewPath, obj |-> releasedef[1][env2[1] + 1]]}
            /\ envfile2' = Some(NewPath)
            /\ Continue("resolve_exe")
    /\ UNCHANGED <<release_definition, bc, deltmp, status_code, nrequests,
                   allreleasedefs,
                   rdid, releasedef, env1, env2, envstr, prompts, envfile1,
                   environ, isfile, bcexe, launched, diffstatus>>

(* lines 165-170 and _get_diff_exe, lines 56-69.  What os.environ holds    *)
(* and which candidates are files is what the host shows at that moment.   *)
ResolveExe ==
    /\ pc = "resolve_exe"
    /\ IF Truthy(bc)
       THEN /\ bcexe' = bc
            /\ UNCHANGED <<environ, isfile>>
            /\ Continue("call_diff")
       ELSE \E defined \in SUBSET {DiffVars[k] : k \in 1..Len(DiffVars)} :
               /\ environ' = Some(defined)
               /\ IF \E k \in 1..Len(DiffVars) : DiffVars[k] \notin defined
                  THEN /\ Raise("KeyError")
                       /\ UNCHANGED <<isfile, bcexe>>
                  ELSE \E existing \in SUBSET (1..Len(DiffList)) :
                          /\ isfile' = Some(existing)
                          /\ bcexe' = FirstFile(1, existing)
                          /\ IF bcexe' = None THEN Exit(3)
                             ELSE Continue("call_diff")
    /\ UNCHANGED <<release_definition, bc, deltmp, status_code, nrequests,
                   allreleasedefs,
                   rdid, releasedef, env1, env2, envstr, prompts, tempfiles,
                   envfile1, envfile2, launched, diffstatus>>

(* lines 172-173: subprocess.call starts the executable, or raises OSError *)
(* when it cannot be started                                              *)
CallDiff ==
    /\ pc = "call_diff"
    /\ \E started \in BOOLEAN :
          IF started
          THEN /\ launched' = Append(launched, <<bcexe[1], envfile1[1], envfile2[1]>>)
               /\ Continue("diff_running")
          ELSE /\ Raise("OSError")
               /\ UNCHANGED launched
    /\ UNCHANGED <<release_definition, bc, deltmp, status_code, nrequests,
                   allreleasedefs,
                   rdid, releasedef, env1, env2, envstr, prompts, tempfiles,
                   envfile1, envfile2, environ, isfile, bcexe, diffstatus>>

(* lines 173-174: subprocess.call returns when the child has exited; its   *)
(* return code is dropped                                                  *)
DiffExits ==
    /\ pc = "diff_running"
    /\ \E returncode \in DiffReturnCodes : diffstatus' = Some(returncode)
    /\ IF deltmp THEN Continue("unlink1") ELSE Exit(0)
    /\ UNCHANGED <<release_definition, bc, deltmp, status_code, nrequests,
                   allreleasedefs,
                   rdid, releasedef, env1, env2, envstr, prompts, tempfiles,
                   envfile1, envfile2, environ, isfile, bcexe, launched>>

(* A variant of unlink that leaves the file in place *)
unlinkNothing(files, path) == files

(* os.unlink(path) *)
unlink(files, path) == {f \in files : f.path # path}

(* line 175 *)
Unlink1 ==
    /\ pc = "unlink1"
    /\ tempfiles' = unlink(tempfiles, envfile1[1])
    /\ Continue("unlink2")
    /\ UNCHANGED <<release_definition, bc, deltmp, status_code, nrequests,
                   allreleasedefs,
                   rdid, releasedef, env1, env2, envstr, prompts, envfile1,
                   envfile2, environ, isfile, bcexe, launched, diffstatus>>

(* line 176, and the end of the script *)
Unlink2 ==
    /\ pc = "unlink2"
    /\ tempfiles' = unlink(tempfiles, envfile2[1])
    /\ Exit(0)
    /\ UNCHANGED <<release_definition, bc, deltmp, status_code, nrequests,
                   allreleasedefs,
                   rdid, releasedef, env1, env2, envstr, prompts, envfile1,
                   envfile2, environ, isfile, bcexe, launched, diffstatus>>

Next ==
    \/ ListRequest
    \/ FindDefinition
    \/ DefinitionRequest
    \/ CountEnvironments
    \/ ReadInput
    \/ CheckInput
    \/ WriteFile1
    \/ WriteFile2
    \/ ResolveExe
    \/ CallDiff
    \/ DiffExits
    \/ Unlink1
    \/ Unlink2

Spec == Init /\ [][Next]_vars

(* The user who, asked again and again, does at some point type a line     *)
(* that the selector accepts; the script itself always takes its next step *)
ValidLine ==
    /\ ReadInput
    /\ ~AskForEnv(EnvVal(envstr'[1]), numenvs,
                  IF pc = "input1" THEN None ELSE env1)

(* The part of a run spent in the two calls of _select_env (lines 116 and  *)
(* 117): it starts where CountEnvironments has found more than two         *)
(* environments and ends with the return of the second call.               *)
SelectorInit ==
    /\ pc = "input1"
    /\ release_definition = "rdA"
    /\ bc = None
    /\ deltmp = FALSE
    /\ nrequests = 2
    /\ status_code = Some(200)
    /\ allreleasedefs = Some(<<[name |-> "rdA", id |-> 7]>>)
    /\ rdid = Some(7)
    /\ \E n \in 3..MaxEnvs : releasedef = Some(Environments(n))
    /\ env1 = None
    /\ env2 = None
    /\ envstr = None
    /\ prompts = 0
    /\ tempfiles = {}
    /\ envfile1 = None
    /\ envfile2 = None
    /\ environ = None
    /\ isfile = None
    /\ bcexe = None
    /\ launched = <<>>
    /\ diffstatus = None
    /\ exitcode = None
    /\ raised = ""

SelectorNext ==
    \/ ReadInput
    \/ CheckInput

SelectorSpec ==
    SelectorInit /\ [][SelectorNext]_vars
                 /\ WF_vars(SelectorNext) /\ SF_vars(ValidLine)

TypeOK ==
    /\ pc \in {"list_request", "find_definition", "definition_request",
               "count_environments", "input1", "check1", "input2", "check2",
               "write1", "write2", "resolve_exe", "call_diff", "diff_running",
               "unlink1", "unlink2", "exited"}
    /\ prompts \in 0..MaxPrompts
    /\ nrequests \in 0..2

----------------------------------------------------------------------------
(* Properties *)

Paths == {f.path : f \in tempfiles}
FileOf(path) == {f.obj : f \in {g \in tempfiles : g.path = path}}
Selecting == releasedef # None /\ numenvs > 2
Finished == pc = "exited"

(* C1: with more than two environments, an index the selector has returned *)
(* for the left or the right environment lies in 0 .. count-1.             *)
C1_IndicesWithinCount ==
    Selecting =>
        /\ env1 # None => env1[1] \in 0..(numenvs - 1)
        /\ env2 # None => env2[1] \in 0..(numenvs - 1)

(* C2: once both environments are selected, so in every state from the     *)
(* writing of the first file on, the two indices differ.                   *)
C2_IndicesDistinct ==
    (env1 # None /\ env2 # None) => env1[1] # env2[1]

(* C2 witness: three or more environments, a rejected line on the way, 0   *)
(* chosen first, and the run has gone on to write its files.               *)
C2_Witness ==
    /\ Selecting
    /\ env1 = Some(0)
    /\ env2 # None
    /\ prompts >= 3
    /\ envfile1 # None

(* C3: with fewer than two environments the run ends with exit code 2, and *)
(* it has written no file, read no line and started no diff tool.          *)
C3_TooFewExitsTwo ==
    (releasedef # None /\ numenvs < 2 /\ pc # "count_environments") =>
        /\ Finished
        /\ exitcode = Some(2)
        /\ raised = ""
        /\ tempfiles = {}
        /\ envfile1 = None /\ envfile2 = None
        /\ prompts = 0
        /\ launched = <<>>

(* C3 witness: a definition with one environment ended the run *)
C3_Witness ==
    /\ releasedef # None
    /\ numenvs = 1
    /\ Finished

HasName == \E i \in 1..Len(allreleasedefs[1]) :
              allreleasedefs[1][i].name = release_definition

(* C4: after the search of a successful list response: if no summary has   *)
(* the name, the run has ended with exit code 1 after one request and      *)
(* without a file; if one has, the run did not end with code 1 there.      *)
C4_NotFoundExitsOne ==
    (allreleasedefs # None /\ pc # "find_definition") =>
        IF HasName
        THEN rdid # None /\ ~(Finished /\ nrequests = 1)
        ELSE /\ Finished
             /\ exitcode = Some(1)
             /\ raised = ""
             /\ nrequests = 1
             /\ releasedef = None
             /\ tempfiles = {}

(* C4 witness: a non-empty listing without the name ended the run *)
C4_Witness ==
    /\ allreleasedefs # None
    /\ Len(allreleasedefs[1]) > 0
    /\ ~HasName
    /\ Finished

(* C5: a response with a 4xx or 5xx status ends the run at once with that  *)
(* status as exit code, which is none of 1, 2, 3; nothing later has        *)
(* happened: after a failed list request no second request, and after      *)
(* either no prompt, no file and no diff tool.                             *)
C5_FailedRequestExitsWithStatus ==
    (status_code # None /\ status_code[1] >= 400 /\ status_code[1] < 600) =>
        /\ Finished
        /\ exitcode = status_code
        /\ raised = ""
        /\ exitcode[1] \notin {1, 2, 3}
        /\ allreleasedefs = None => nrequests = 1
        /\ releasedef = None
        /\ prompts = 0
        /\ tempfiles = {}
        /\ bcexe = None
        /\ launched = <<>>

(* C5 witness: the second request failed *)
C5_Witness ==
    /\ nrequests = 2
    /\ status_code = Some(404)
    /\ Finished

(* C6: with exactly two environments no line is read, the indices are 0    *)
(* and 1, and the first file holds the first environment of the list, the  *)
(* second file the second.                                                 *)
C6_TwoEnvironmentsAutoSelected ==
    (releasedef # None /\ numenvs = 2 /\ pc # "count_environments") =>
        /\ prompts = 0
        /\ env1 = Some(0)
        /\ env2 = Some(1)
        /\ envfile1 # None /\ envfile1[1] \in Paths
              => FileOf(envfile1[1]) = {releasedef[1][1]}
        /\ envfile2 # None /\ envfile2[1] \in Paths
              => FileOf(envfile2[1]) = {releasedef[1][2]}
        /\ envfile1 # None /\ envfile2 # None => envfile1 # envfile2

(* C6 witness: both files of a two-environment definition are on disk *)
C6_Witness ==
    /\ releasedef # None
    /\ numenvs = 2
    /\ envfile2 # None
    /\ Cardinality(tempfiles) = 2

(* C7: with a path given to -c, _get_diff_exe is never run, every command  *)
(* line started begins with that path, and the run does not end with 3.    *)
C7_ExplicitPathSkipsProbing ==
    (bc # None /\ bc # Some("")) =>
        /\ environ = None
        /\ isfile = None
        /\ bcexe \in {None, bc}
        /\ \A i \in 1..Len(launched) : launched[i][1] = bc[1]
        /\ exitcode # Some(3)

(* C7 witness: the path given to -c was started *)
C7_Witness ==
    /\ bc = Some("C:/tools/diff.exe")
    /\ Len(launched) = 1

(* C8: without a path from -c and with no candidate path on disk, the run  *)
(* ends with exit code 3, nothing was started, and the two files written   *)
(* are still there, whatever the delete flag.                              *)
C8_NoExecutableExitsThree ==
    ((bc = None \/ bc = Some("")) /\ isfile = Some({})) =>
        /\ Finished
        /\ exitcode = Some(3)
        /\ raised = ""
        /\ launched = <<>>
        /\ diffstatus = None
        /\ envfile1 # None /\ envfile2 # None
        /\ Paths = {envfile1[1], envfile2[1]}
        /\ Cardinality(tempfiles) = 2

(* C8 witness: no candidate was found in a run with the delete flag set *)
C8_Witness ==
    /\ bc = None
    /\ isfile = Some({})
    /\ deltmp
    /\ Finished

(* C9: a file that was written is on disk as long as the diff tool has not *)
(* exited; with the flag unset it stays on disk; with the flag set, a run  *)
(* whose diff tool has exited ends with both files deleted.                *)
C9_DeleteAfterDiffOnly ==
    /\ (envfile1 # None /\ (diffstatus = None \/ ~deltmp)) => envfile1[1] \in Paths
    /\ (envfile2 # None /\ (diffstatus = None \/ ~deltmp)) => envfile2[1] \in Paths
    /\ (deltmp /\ diffstatus # None /\ Finished) =>
          /\ tempfiles = {}
          /\ exitcode = Some(0)

(* C9 witness: the diff tool failed and the files are gone *)
C9_Witness ==
    /\ deltmp
    /\ diffstatus = Some(13)
    /\ Finished
    /\ tempfiles = {}

(* What the line just read is to _select_env: its number, and whether it   *)
(* is one that has to be asked for again                                   *)
LineNumber == int(envstr[1])
LineInvalid ==
    \/ LineNumber = None
    \/ LineNumber[1] < 0
    \/ LineNumber[1] > numenvs
    \/ pc = "check2" /\ LineNumber = env1

(* What a step from the validation of a line must be, for C10 *)
C10_CheckStep ==
    pc \in {"check1", "check2"} =>
        IF LineInvalid
        THEN /\ pc' = (IF pc = "check1" THEN "input1" ELSE "input2")
             /\ UNCHANGED <<env1, env2, exitcode, raised>>
        ELSE /\ pc' = (IF pc = "check1" THEN "input2" ELSE "write1")
             /\ IF pc = "check1" THEN env1' = LineNumber
                                 ELSE env2' = LineNumber

(* C10: an invalid line (not a number, negative, above maxval, or the      *)
(* excluded first selection) leads to the next prompt and never ends the   *)
(* run; a valid line is returned as the selection.                         *)
C10_Reprompt == [][C10_CheckStep]_vars

(* C10: with a user who at some point types a valid line, each of the two  *)
(* selections ends.                                                        *)
C10_Selection1Ends == (pc = "input1") ~> (env1 # None)
C10_Selection2Ends == (pc = "input2") ~> (env2 # None)

====
